---- MODULE Spec2Model ----
(***************************************************************************)
(* Model of backend/server.js: an express server over three mongoose       *)
(* collections (Donor, Inventory, Request).  Each route handler is one     *)
(* action, except POST /api/inventory whose awaits (unit save, donor       *)
(* lookup) and whose un-awaited donor.save() are separate steps, so that   *)
(* concurrent requests interleave the way the event loop allows.           *)
(*                                                                         *)
(* Dates (collectionDate, expiryDate, lastDonation) are local calendar     *)
(* days, counted from 1970-01-01.  createdAt / requestDate are readings    *)
(* of the clock `now`.                                                     *)
(***************************************************************************)
EXTENDS Integers, Sequences, FiniteSets, TLC

\* ------------------------------------------------------------------ bounds
MaxDonorId == 2      \* well-formed donor identifiers are 1..MaxDonorId
MaxUnits == 2        \* inventory units ever created
MaxRequests == 2     \* requests ever created
MaxTime == 1         \* the clock runs 0..MaxTime
NumHandlers == 2     \* POST /api/inventory requests in flight at once
BaseDay == 19700     \* first collection day of the wide date range (2023-12-09)
DateSpan == 450      \* the wide date range is BaseDay..BaseDay+DateSpan

\* ------------------------------------------------------- program constants
ExpiryDays == 35
Null == -1           \* null (lastDonation's default)
InvalidDate == -2    \* a Date whose time value is NaN
Absent == -3         \* a field the JSON body does not carry (undefined)
BadNumber == -4      \* a value that does not cast to Number
BadId == 0           \* a string that is no ObjectId

DonorRequired == {"name", "bloodType", "phone", "email", "address"}
RequestRequired == {"patientName", "bloodType", "unitsNeeded", "priority", "hospital"}
InventoryStatusEnum == {"Available", "Used", "Expired"}
PriorityEnum == {"Low", "Medium", "High", "Critical"}
StatusEnum == {"Pending", "Fulfilled", "Cancelled"}

DonorIds == 1..MaxDonorId
UnitIds == 1..MaxUnits
RequestIds == 1..MaxRequests
Handlers == 1..NumHandlers
\* the two collection days used where requests interleave
Dates == {BaseDay, BaseDay + 1}
\* the days used where the expiry computation is checked
DateRange == BaseDay..(BaseDay + DateSpan)

\* ---------------------------------------------------------------- Date
\* JavaScript Date, local calendar fields of a day number (getFullYear,
\* getMonth (1-based here), getDate).
IsLeap(y) == (y % 4 = 0 /\ y % 100 # 0) \/ y % 400 = 0

DaysInMonth(y, m) ==
    IF m = 2 THEN (IF IsLeap(y) THEN 29 ELSE 28)
    ELSE IF m \in {4, 6, 9, 11} THEN 30 ELSE 31

\* day number of January 1st of year y (ECMAScript DayFromYear)
DayFromYear(y) ==
    365 * (y - 1970) + ((y - 1969) \div 4) - ((y - 1901) \div 100) + ((y - 1601) \div 400)

\* the greatest year y from y0 on with DayFromYear(y) <= day (ECMAScript YearFromTime)
RECURSIVE YearFromDay(_, _)
YearFromDay(day, y0) ==
    IF DayFromYear(y0 + 1) <= day THEN YearFromDay(day, y0 + 1) ELSE y0

RECURSIVE MonthFromDayInYear(_, _, _)
MonthFromDayInYear(y, m, rest) ==
    IF rest >= DaysInMonth(y, m) THEN MonthFromDayInYear(y, m + 1, rest - DaysInMonth(y, m))
    ELSE [month |-> m, date |-> rest + 1]

\* the calendar fields of a day number
Civil(day) ==
    LET y == YearFromDay(day, 1970 + (day \div 366))
        md == MonthFromDayInYear(y, 1, day - DayFromYear(y))
    IN [year |-> y, month |-> md.month, date |-> md.date]

RECURSIVE DaysBeforeMonth(_, _)
DaysBeforeMonth(y, m) ==
    IF m = 1 THEN 0 ELSE DaysBeforeMonth(y, m - 1) + DaysInMonth(y, m - 1)

\* ECMAScript MakeDay(year, month, date): the date may exceed the month's length
MakeDay(y, m, dt) == DayFromYear(y) + DaysBeforeMonth(y, m) + dt - 1

\* new Date(collectionDate): an absent or unparsable value gives an invalid Date
NewDate(v) == IF v \in Nat THEN v ELSE InvalidDate

\* the expiry date were it set by setDate(35), the day of the month not added
ExpiryDateOfMonth(collectionDate) ==
    LET day == NewDate(collectionDate)
    IN IF day = InvalidDate THEN InvalidDate
       ELSE LET c == Civil(day) IN MakeDay(c.year, c.month, ExpiryDays)

\* const expiryDate = new Date(collectionDate);
\* expiryDate.setDate(expiryDate.getDate() + 35);
ExpiryDate(collectionDate) ==
    LET day == NewDate(collectionDate)
    IN IF day = InvalidDate THEN InvalidDate
       ELSE LET c == Civil(day) IN MakeDay(c.year, c.month, c.date + ExpiryDays)

\* ---------------------------------------------------------------- state
VARIABLES
    donors,        \* the Donor collection: records [id, lastDonation, createdAt]
    inventory,     \* the Inventory collection
    requests,      \* the Request collection
    now,           \* Date.now()
    usedDonorIds,  \* donor identifiers ever stored (generated ObjectIds are new)
    nextUnit,      \* the next generated Inventory identifier
    nextRequest,   \* the next generated Request identifier
    hs,            \* the POST /api/inventory requests in flight, one per slot
    pendingSaves,  \* donor.save() calls issued and not yet settled
    resp,          \* the last response sent
    lastUnit,      \* history: per donor id, collectionDate of the unit persisted last
    failed         \* history: a donor lookup or donor save has failed

vars == <<donors, inventory, requests, now, usedDonorIds, nextUnit, nextRequest,
          hs, pendingSaves, resp, lastUnit, failed>>

Ids(coll) == {r.id : r \in coll}
ById(coll, id) == CHOOSE r \in coll : r.id = id

\* res.status(code).json(...): payload holds the document(s) of the envelope,
\* via names the outcome of the donor side-update of an inventory creation
Response(route, code, payload) ==
    [route |-> route, code |-> code, success |-> (code = 200), payload |-> payload,
     via |-> "none"]

IdleHandler == [pc |-> "idle", unit |-> <<>>, side |-> "none"]

Init ==
    /\ donors = {}
    /\ inventory = {}
    /\ requests = {}
    /\ now = 0
    /\ usedDonorIds = {}
    /\ nextUnit = 1
    /\ nextRequest = 1
    /\ hs = [h \in Handlers |-> IdleHandler]
    /\ pendingSaves = {}
    /\ resp = Response("none", 0, <<>>)
    /\ lastUnit = [d \in DonorIds |-> Null]
    /\ failed = FALSE

\* Date.now() advances between requests
Tick ==
    /\ now < MaxTime
    /\ now' = now + 1
    /\ UNCHANGED <<donors, inventory, requests, usedDonorIds, nextUnit, nextRequest,
                   hs, pendingSaves, resp, lastUnit, failed>>

\* ------------------------------------------------------------ find().sort()
\* Model.find().sort({key: 1}): least key first
RECURSIVE SortAsc(_, _)
SortAsc(coll, key) ==
    IF coll = {} THEN <<>>
    ELSE LET m == CHOOSE x \in coll : \A y \in coll : x[key] <= y[key]
         IN <<m>> \o SortAsc(coll \ {m}, key)

\* Model.find().sort({key: -1}): every document, greatest key first
RECURSIVE SortDesc(_, _)
SortDesc(coll, key) ==
    IF coll = {} THEN <<>>
    ELSE LET m == CHOOSE x \in coll : \A y \in coll : x[key] >= y[key]
         IN <<m>> \o SortDesc(coll \ {m}, key)

\* ---------------------------------------------------------------- donors
FieldKinds == {"text", "empty", "absent", "object"}

\* the bodies POST /api/donors can carry
DonorBodies ==
    [fields : [DonorRequired -> FieldKinds],
     id : {Absent, BadId} \cup DonorIds,
     lastDonation : {Absent} \cup Dates]

\* the five required fields with at most one that is not a non-empty string, or
\* with all five alike
FewFields ==
    {[g \in DonorRequired |-> IF g = f THEN k ELSE "text"] : f \in DonorRequired, k \in FieldKinds}
        \cup {[g \in DonorRequired |-> k] : k \in FieldKinds}

\* a body of the five required fields, each a non-empty string, and nothing else
PlainDonor == [fields |-> [f \in DonorRequired |-> "text"], id |-> Absent,
               lastDonation |-> Absent]

\* the bodies POST /api/donors is tried with: the plain one with the fields
\* varied, or with an _id, a lastDonation or both added
FewDonorBodies ==
    {[PlainDonor EXCEPT !.fields = v] : v \in FewFields}
        \cup {[PlainDonor EXCEPT !.id = i] : i \in DonorIds \cup {BadId}}
        \cup {[PlainDonor EXCEPT !.lastDonation = BaseDay]}
        \cup {[PlainDonor EXCEPT !.id = i, !.lastDonation = BaseDay] : i \in DonorIds}

\* await Donor.find().sort({ createdAt: -1 })
ListDonors == SortDesc(donors, "createdAt")

\* app.get('/api/donors')
GetDonors(dbFail) ==
    /\ resp' = IF dbFail THEN Response("GET /api/donors", 500, <<>>)
               ELSE Response("GET /api/donors", 200, ListDonors)
    /\ UNCHANGED <<donors, inventory, requests, now, usedDonorIds, nextUnit, nextRequest,
                   hs, pendingSaves, lastUnit, failed>>

\* a donorSchema whose paths are not required
DonorValidatesNothing(body) == \A f \in DonorRequired : body.fields[f] # "object"

\* donorSchema: the five required paths, each a String (required rejects "")
DonorValidates(body) == \A f \in DonorRequired : body.fields[f] = "text"

\* the document new Donor(req.body) builds
NewDonor(body) ==
    [id |-> IF body.id # Absent THEN body.id
            ELSE CHOOSE i \in DonorIds \ usedDonorIds :
                    \A j \in DonorIds \ usedDonorIds : i <= j,
     lastDonation |-> IF body.lastDonation = Absent THEN Null ELSE body.lastDonation,
     createdAt |-> now]

\* app.post('/api/donors')
PostDonors(body, dbFail) ==
    LET ok == /\ DonorValidates(body)
              /\ body.id # BadId
              /\ body.id \notin Ids(donors)
              /\ ~dbFail
    IN /\ (ok /\ body.id = Absent) => DonorIds \ usedDonorIds # {}
       /\ IF ok
          THEN LET donor == NewDonor(body)
               IN /\ donors' = donors \cup {donor}
                  /\ usedDonorIds' = usedDonorIds \cup {donor.id}
                  /\ resp' = Response("POST /api/donors", 200, <<donor>>)
          ELSE /\ resp' = Response("POST /api/donors", 400, <<>>)
               /\ UNCHANGED <<donors, usedDonorIds>>
       /\ UNCHANGED <<inventory, requests, now, nextUnit, nextRequest, hs, pendingSaves,
                      lastUnit, failed>>

\* a delete that reports an identifier nothing matches
DeleteCodeStrict(coll, id) == IF id \in Ids(coll) THEN 200 ELSE 404

\* await Model.findByIdAndDelete(req.params.id); res.json({ success: true, ... }):
\* the result of the delete is not looked at
DeleteCode(coll, id) == 200

\* app.delete('/api/donors/:id')
DeleteDonors(id, dbFail) ==
    /\ IF id = BadId \/ dbFail
       THEN /\ resp' = Response("DELETE /api/donors", 500, <<>>)
            /\ UNCHANGED donors
       ELSE /\ donors' = {d \in donors : d.id # id}
            /\ resp' = Response("DELETE /api/donors", DeleteCode(donors, id), <<>>)
    /\ UNCHANGED <<inventory, requests, now, usedDonorIds, nextUnit, nextRequest, hs,
                   pendingSaves, lastUnit, failed>>

\* -------------------------------------------------------------- inventory
\* the bodies POST /api/inventory is tried with, for collection days in days
InventoryBodies(days) ==
    [bloodType : {"text", "absent"},
     donorId : {Absent, BadId} \cup DonorIds,
     collectionDate : {Absent, InvalidDate} \cup days]

\* await Inventory.find().sort({ createdAt: -1 })
ListInventory == SortDesc(inventory, "createdAt")

\* app.get('/api/inventory')
GetInventory(dbFail) ==
    /\ resp' = IF dbFail THEN Response("GET /api/inventory", 500, <<>>)
               ELSE Response("GET /api/inventory", 200, ListInventory)
    /\ UNCHANGED <<donors, inventory, requests, now, usedDonorIds, nextUnit, nextRequest,
                   hs, pendingSaves, lastUnit, failed>>

\* inventorySchema: bloodType, donorId, collectionDate and expiryDate are required,
\* the two dates must cast to valid Dates
InventoryValidates(body, expiryDate) ==
    /\ body.bloodType = "text"
    /\ body.donorId # Absent
    /\ body.collectionDate \in Nat
    /\ expiryDate \in Nat

\* app.post('/api/inventory'), up to and including `await bloodUnit.save()`
PostInventory(h, body, dbFail) ==
    LET expiryDate == ExpiryDate(body.collectionDate)
        bloodUnit == [id |-> nextUnit,
                      donorId |-> body.donorId,
                      collectionDate |-> body.collectionDate,
                      expiryDate |-> expiryDate,
                      status |-> "Available",
                      createdAt |-> now]
        x == body.donorId
    IN /\ hs[h].pc = "idle"
       /\ IF InventoryValidates(body, expiryDate) /\ ~dbFail
          THEN /\ nextUnit <= MaxUnits
               /\ inventory' = inventory \cup {bloodUnit}
               /\ nextUnit' = nextUnit + 1
               /\ hs' = [hs EXCEPT ![h] = [pc |-> "lookup", unit |-> <<bloodUnit>>,
                                           side |-> "none"]]
               /\ lastUnit' = IF x \in DonorIds
                              THEN [lastUnit EXCEPT ![x] = body.collectionDate]
                              ELSE lastUnit
               /\ UNCHANGED resp
          ELSE /\ resp' = Response("POST /api/inventory", 400, <<>>)
               /\ UNCHANGED <<inventory, nextUnit, hs, lastUnit>>
       /\ UNCHANGED <<donors, requests, now, usedDonorIds, nextRequest, pendingSaves,
                      failed>>

\* donor.lastDonation = collectionDate; donor.save();
SaveOf(h) ==
    [req |-> hs[h].unit[1].id, donor |-> hs[h].unit[1].donorId,
     lastDonation |-> hs[h].unit[1].collectionDate]

\* await Donor.findOne({ _id: donorId }).then(...).catch(...): the lookup settles;
\* a found donor is modified and its save() is issued without being awaited
DonorLookup(h, dbFail) ==
    LET x == hs[h].unit[1].donorId
    IN /\ hs[h].pc = "lookup"
       /\ IF x = BadId
          THEN /\ hs' = [hs EXCEPT ![h].pc = "respond", ![h].side = "castError"]
               /\ UNCHANGED <<pendingSaves, failed>>
          ELSE IF dbFail
          THEN /\ hs' = [hs EXCEPT ![h].pc = "respond", ![h].side = "lookupFailed"]
               /\ failed' = TRUE
               /\ UNCHANGED pendingSaves
          ELSE IF x \notin Ids(donors)
          THEN /\ hs' = [hs EXCEPT ![h].pc = "respond", ![h].side = "notFound"]
               /\ UNCHANGED <<pendingSaves, failed>>
          ELSE /\ hs' = [hs EXCEPT ![h].pc = "respond", ![h].side = "saving"]
               /\ pendingSaves' = pendingSaves \cup {SaveOf(h)}
               /\ UNCHANGED failed
       /\ UNCHANGED <<donors, inventory, requests, now, usedDonorIds, nextUnit,
                      nextRequest, resp, lastUnit>>

\* the status were an error of the donor side-update to reach the outer catch
RespondCodeStrict(h) ==
    IF hs[h].side \in {"castError", "lookupFailed"} THEN 400 ELSE 200

\* res.json({ success: true, bloodUnit })
RespondCode(h) == 200

\* the handler resumes after the await and responds
Respond(h) ==
    /\ hs[h].pc = "respond"
    /\ resp' = [Response("POST /api/inventory", RespondCode(h), hs[h].unit)
                   EXCEPT !.via = hs[h].side]
    /\ hs' = [hs EXCEPT ![h] = IdleHandler]
    /\ UNCHANGED <<donors, inventory, requests, now, usedDonorIds, nextUnit, nextRequest,
                   pendingSaves, lastUnit, failed>>

\* the Donor collection after the save's update of the stored document (no
\* document is inserted when none has the identifier)
SaveApplied(s) ==
    {IF d.id = s.donor THEN [d EXCEPT !.lastDonation = s.lastDonation] ELSE d : d \in donors}

\* the un-awaited donor.save() settles: it updates the stored donor, or rejects
\* (the database fails, or the document is gone) and nobody handles the rejection
DonorSave(s, dbFail) ==
    /\ s \in pendingSaves
    /\ pendingSaves' = pendingSaves \ {s}
    /\ IF dbFail
       THEN /\ failed' = TRUE
            /\ UNCHANGED donors
       ELSE /\ donors' = SaveApplied(s)
            /\ failed' = (failed \/ s.donor \notin Ids(donors))
    /\ UNCHANGED <<inventory, requests, now, usedDonorIds, nextUnit, nextRequest, hs, resp,
                   lastUnit>>

\* app.delete('/api/inventory/:id')
DeleteInventory(id, dbFail) ==
    /\ IF id = BadId \/ dbFail
       THEN /\ resp' = Response("DELETE /api/inventory", 500, <<>>)
            /\ UNCHANGED inventory
       ELSE /\ inventory' = {u \in inventory : u.id # id}
            /\ resp' = Response("DELETE /api/inventory", DeleteCode(inventory, id), <<>>)
    /\ UNCHANGED <<donors, requests, now, usedDonorIds, nextUnit, nextRequest, hs,
                   pendingSaves, lastUnit, failed>>

\* --------------------------------------------------------------- requests
\* a request body that leaves status to its default ("absent": not sent)
PlainRequest == [missing |-> {}, priority |-> "Low", unitsNeeded |-> 1, status |-> "absent"]

\* the bodies POST /api/requests is tried with: the plain one, and it with one
\* field left out or changed
RequestBodies ==
    {PlainRequest}
        \cup {[PlainRequest EXCEPT !.missing = {f}] : f \in {"patientName", "bloodType", "hospital"}}
        \cup {[PlainRequest EXCEPT !.priority = p] : p \in {"absent", "Bogus"}}
        \cup {[PlainRequest EXCEPT !.unitsNeeded = n] : n \in {Absent, BadNumber}}
        \cup {[PlainRequest EXCEPT !.status = S] : S \in {"Bogus", "Fulfilled"}}

\* a PUT body that carries no field of the schema
NoUpdate == [priority |-> "absent", unitsNeeded |-> Absent, status |-> "absent"]

\* the status values PUT /api/requests/:id is sent: two of the enum, one outside it
UpdateStatuses == {"Fulfilled", "Cancelled", "Bogus"}

\* the bodies PUT /api/requests/:id is tried with: one field, or all three
UpdateBodies ==
    {NoUpdate, [priority |-> "High", unitsNeeded |-> 2, status |-> "Cancelled"]}
        \cup {[NoUpdate EXCEPT !.status = S] : S \in UpdateStatuses}
        \cup {[NoUpdate EXCEPT !.priority = "Bogus"]}
        \cup {[NoUpdate EXCEPT !.unitsNeeded = BadNumber]}

\* await Request.find().sort({ requestDate: -1 })
ListRequests == SortDesc(requests, "requestDate")

\* app.get('/api/requests')
GetRequests(dbFail) ==
    /\ resp' = IF dbFail THEN Response("GET /api/requests", 500, <<>>)
               ELSE Response("GET /api/requests", 200, ListRequests)
    /\ UNCHANGED <<donors, inventory, requests, now, usedDonorIds, nextUnit, nextRequest,
                   hs, pendingSaves, lastUnit, failed>>

\* requestSchema, as document validation on save(): required paths, the Number
\* cast and the two enums
RequestValidates(body) ==
    /\ body.missing = {}
    /\ body.priority \in PriorityEnum
    /\ body.unitsNeeded \in Nat
    /\ body.status \in StatusEnum \cup {"absent"}

\* app.post('/api/requests')
PostRequests(body, dbFail) ==
    LET request == [id |-> nextRequest,
                    priority |-> body.priority,
                    unitsNeeded |-> body.unitsNeeded,
                    status |-> IF body.status = "absent" THEN "Pending" ELSE body.status,
                    requestDate |-> now]
    IN /\ IF RequestValidates(body) /\ ~dbFail
          THEN /\ nextRequest <= MaxRequests
               /\ requests' = requests \cup {request}
               /\ nextRequest' = nextRequest + 1
               /\ resp' = Response("POST /api/requests", 200, <<request>>)
          ELSE /\ resp' = Response("POST /api/requests", 400, <<>>)
               /\ UNCHANGED <<requests, nextRequest>>
       /\ UNCHANGED <<donors, inventory, now, usedDonorIds, nextUnit, hs, pendingSaves,
                      lastUnit, failed>>

\* an update that overwrites the document with the body: paths the body leaves
\* out are lost or fall back to their defaults
Overwritten(old, body) ==
    [id |-> old.id,
     priority |-> body.priority,
     unitsNeeded |-> body.unitsNeeded,
     status |-> IF body.status = "absent" THEN "Pending" ELSE body.status,
     requestDate |-> old.requestDate]

\* the document after findByIdAndUpdate's $set of the paths the body carries;
\* update validators are off (no runValidators), so the enums are not consulted
Updated(old, body) ==
    [id |-> old.id,
     priority |-> IF body.priority = "absent" THEN old.priority ELSE body.priority,
     unitsNeeded |-> IF body.unitsNeeded = Absent THEN old.unitsNeeded ELSE body.unitsNeeded,
     status |-> IF body.status = "absent" THEN old.status ELSE body.status,
     requestDate |-> old.requestDate]

\* findByIdAndUpdate casts the values of the body to the types of requestSchema
\* before it queries: a unitsNeeded that is no Number is a CastError
UpdateCasts(body) == body.unitsNeeded # BadNumber

\* findByIdAndUpdate with upsert: a body that matches nothing is inserted
UpsertNoMatch(id, body) ==
    {[id |-> id,
      priority |-> body.priority,
      unitsNeeded |-> body.unitsNeeded,
      status |-> IF body.status = "absent" THEN "Pending" ELSE body.status,
      requestDate |-> now]}

\* findByIdAndUpdate(id, body, { new: true }) when no document has the id:
\* nothing is written
UpdateNoMatch(id, body) == {}

\* app.put('/api/requests/:id')
PutRequests(id, body, dbFail) ==
    /\ IF id = BadId \/ ~UpdateCasts(body) \/ dbFail
       THEN /\ resp' = Response("PUT /api/requests", 500, <<>>)
            /\ UNCHANGED requests
       ELSE IF id \notin Ids(requests)
       THEN /\ requests' = requests \cup UpdateNoMatch(id, body)
            /\ resp' = Response("PUT /api/requests", 200, <<>>)
       ELSE LET old == ById(requests, id)
                request == Updated(old, body)
            IN /\ requests' = (requests \ {old}) \cup {request}
               /\ resp' = Response("PUT /api/requests", 200, <<request>>)
    /\ UNCHANGED <<donors, inventory, now, usedDonorIds, nextUnit, nextRequest, hs,
                   pendingSaves, lastUnit, failed>>

\* app.delete('/api/requests/:id')
DeleteRequests(id, dbFail) ==
    /\ IF id = BadId \/ dbFail
       THEN /\ resp' = Response("DELETE /api/requests", 500, <<>>)
            /\ UNCHANGED requests
       ELSE /\ requests' = {r \in requests : r.id # id}
            /\ resp' = Response("DELETE /api/requests", DeleteCode(requests, id), <<>>)
    /\ UNCHANGED <<donors, inventory, now, usedDonorIds, nextUnit, nextRequest, hs,
                   pendingSaves, lastUnit, failed>>

\* --------------------------------------------------------- specifications
\* The whole server: every route, every body, requests interleaving freely.
\* The specifications after it are restrictions of this one to the routes and
\* the bodies a group of properties is about.
Next ==
    \/ Tick
    \/ \E dbFail \in BOOLEAN : GetDonors(dbFail)
    \/ \E body \in DonorBodies, dbFail \in BOOLEAN : PostDonors(body, dbFail)
    \/ \E id \in DonorIds \cup {BadId}, dbFail \in BOOLEAN : DeleteDonors(id, dbFail)
    \/ \E dbFail \in BOOLEAN : GetInventory(dbFail)
    \/ \E h \in Handlers, body \in InventoryBodies(DateRange), dbFail \in BOOLEAN :
          PostInventory(h, body, dbFail)
    \/ \E h \in Handlers, dbFail \in BOOLEAN : DonorLookup(h, dbFail)
    \/ \E h \in Handlers : Respond(h)
    \/ \E s \in pendingSaves, dbFail \in BOOLEAN : DonorSave(s, dbFail)
    \/ \E id \in UnitIds \cup {BadId}, dbFail \in BOOLEAN : DeleteInventory(id, dbFail)
    \/ \E dbFail \in BOOLEAN : GetRequests(dbFail)
    \/ \E body \in RequestBodies, dbFail \in BOOLEAN : PostRequests(body, dbFail)
    \/ \E id \in RequestIds \cup {BadId}, body \in UpdateBodies, dbFail \in BOOLEAN :
          PutRequests(id, body, dbFail)
    \/ \E id \in RequestIds \cup {BadId}, dbFail \in BOOLEAN : DeleteRequests(id, dbFail)

Spec == Init /\ [][Next]_vars

\* an inventory body for donor identifier x and collection day d
UnitFor(x, d) == [bloodType |-> "text", donorId |-> x, collectionDate |-> d]

\* One POST /api/inventory, over the wide range of collection days, for a donor
\* registered beforehand or for none.
NextSingle ==
    \/ nextUnit = 1 /\ \E dbFail \in BOOLEAN : PostDonors(PlainDonor, dbFail)
    \/ nextUnit = 1 /\ \E body \in InventoryBodies(DateRange), dbFail \in BOOLEAN :
                          PostInventory(1, body, dbFail)
    \/ \E dbFail \in BOOLEAN : DonorLookup(1, dbFail)
    \/ Respond(1)
    \/ \E s \in pendingSaves, dbFail \in BOOLEAN : DonorSave(s, dbFail)

SpecSingle == Init /\ [][NextSingle]_vars

\* The donor routes.
NextDonors ==
    \/ Tick
    \/ \E dbFail \in BOOLEAN : GetDonors(dbFail)
    \/ \E body \in FewDonorBodies, dbFail \in BOOLEAN : PostDonors(body, dbFail)
    \/ \E id \in DonorIds \cup {BadId}, dbFail \in BOOLEAN : DeleteDonors(id, dbFail)

SpecDonors == Init /\ [][NextDonors]_vars

\* One donor, registered once, and the POST /api/inventory requests that name
\* it, handled concurrently.  A new request takes the first free slot.
NextInventory ==
    \/ usedDonorIds = {} /\ PostDonors(PlainDonor, FALSE)
    \/ \E id \in usedDonorIds : DeleteDonors(id, FALSE)
    \/ \E h \in Handlers, x \in usedDonorIds, d \in Dates :
          /\ \A g \in Handlers : g < h => hs[g].pc # "idle"
          /\ PostInventory(h, UnitFor(x, d), FALSE)
    \/ \E h \in Handlers, dbFail \in BOOLEAN : DonorLookup(h, dbFail)
    \/ \E h \in Handlers : Respond(h)
    \/ \E s \in pendingSaves, dbFail \in BOOLEAN : DonorSave(s, dbFail)
    \/ \E id \in UnitIds : DeleteInventory(id, FALSE)

SpecInventory == Init /\ [][NextInventory]_vars

\* The request routes.
NextRequests ==
    \/ \E body \in RequestBodies : PostRequests(body, FALSE)
    \/ PostRequests(PlainRequest, TRUE)
    \/ \E id \in RequestIds \cup {BadId}, body \in UpdateBodies : PutRequests(id, body, FALSE)
    \/ \E id \in RequestIds : PutRequests(id, NoUpdate, TRUE)
    \/ \E id \in RequestIds \cup {BadId} : DeleteRequests(id, FALSE)

SpecRequests == Init /\ [][NextRequests]_vars

\* The delete routes of the three collections, each collection filled by plain
\* creations.
NextDelete ==
    \/ PostDonors(PlainDonor, FALSE)
    \/ \E id \in DonorIds \cup {BadId}, dbFail \in BOOLEAN : DeleteDonors(id, dbFail)
    \/ PostInventory(1, UnitFor(BadId, BaseDay), FALSE)
    \/ DonorLookup(1, FALSE)
    \/ Respond(1)
    \/ \E id \in UnitIds \cup {BadId}, dbFail \in BOOLEAN : DeleteInventory(id, dbFail)
    \/ PostRequests(PlainRequest, FALSE)
    \/ \E id \in RequestIds \cup {BadId}, dbFail \in BOOLEAN : DeleteRequests(id, dbFail)

SpecDelete == Init /\ [][NextDelete]_vars

\* The list routes of the three collections, the clock advancing between
\* creations.
NextList ==
    \/ Tick
    \/ PostDonors(PlainDonor, FALSE)
    \/ PostInventory(1, UnitFor(BadId, BaseDay), FALSE)
    \/ DonorLookup(1, FALSE)
    \/ Respond(1)
    \/ PostRequests(PlainRequest, FALSE)
    \/ \E id \in RequestIds : DeleteRequests(id, FALSE)
    \/ \E dbFail \in BOOLEAN : GetDonors(dbFail)
    \/ \E dbFail \in BOOLEAN : GetInventory(dbFail)
    \/ \E dbFail \in BOOLEAN : GetRequests(dbFail)

SpecList == Init /\ [][NextList]_vars

\* ------------------------------------------------------------------ claims
Range(list) == {list[i] : i \in 1..Len(list)}

\* C1: every inventory unit a successful POST /api/inventory stored or returned
\* has an expiryDate exactly 35 days after its collectionDate, for every
\* collection day of the range, month and year ends included.
C1_ExpiryIs35DaysLater ==
    /\ \A u \in inventory : u.expiryDate = u.collectionDate + ExpiryDays
    /\ (resp.route = "POST /api/inventory" /\ resp.success)
          => \A u \in Range(resp.payload) : u.expiryDate = u.collectionDate + ExpiryDays

\* a unit collected in one year and expiring in the next was created and returned
C1_Witness ==
    /\ resp.route = "POST /api/inventory" /\ resp.success
    /\ resp.payload[1] \in inventory
    /\ Civil(resp.payload[1].collectionDate).year # Civil(resp.payload[1].expiryDate).year

\* C2: once POST /api/inventory for an existing donor has sent its success
\* response (and nothing else touches the donor), the stored donor's
\* lastDonation is the collectionDate of the request.
C2_LastDonationSetAtResponse ==
    (resp.route = "POST /api/inventory" /\ resp.success /\ resp.via = "saving")
        => \E d \in donors : /\ d.id = resp.payload[1].donorId
                             /\ d.lastDonation = resp.payload[1].collectionDate

\* C3: once the unit is persisted the handler answers success=true with that
\* unit, whatever became of the donor side-update; no step of the side-update
\* removes the unit or changes which donors exist.
C3_SideUpdateNeverFailsTheCreation ==
    [][/\ \A h \in Handlers :
             Respond(h) => /\ resp'.success /\ resp'.code = 200
                           /\ resp'.payload = hs[h].unit
                           /\ hs[h].unit[1] \in inventory'
       /\ \A h \in Handlers, dbFail \in BOOLEAN :
             DonorLookup(h, dbFail) => inventory' = inventory /\ donors' = donors
       /\ \A s \in pendingSaves, dbFail \in BOOLEAN :
             DonorSave(s, dbFail) => inventory' = inventory /\ Ids(donors') = Ids(donors)
      ]_vars

\* a creation answered success=true although its donor lookup failed
C3_Witness ==
    /\ resp.route = "POST /api/inventory" /\ resp.success
    /\ resp.via = "lookupFailed"
    /\ resp.payload[1] \in inventory

\* the three collections are as they were
CollectionsUnchanged == donors' = donors /\ inventory' = inventory /\ requests' = requests

\* what C4 says of one delete step of each route, for the identifiers in ids
DeleteOfNoMatch(ids) ==
    /\ \A id \in ids \cap (DonorIds \cup {BadId}) :
          DeleteDonors(id, FALSE) =>
              /\ id \notin Ids(donors')
              /\ id \notin Ids(donors) => resp'.success /\ CollectionsUnchanged
    /\ \A id \in ids \cap (UnitIds \cup {BadId}) :
          DeleteInventory(id, FALSE) =>
              /\ id \notin Ids(inventory')
              /\ id \notin Ids(inventory) => resp'.success /\ CollectionsUnchanged
    /\ \A id \in ids \cap (RequestIds \cup {BadId}) :
          DeleteRequests(id, FALSE) =>
              /\ id \notin Ids(requests')
              /\ id \notin Ids(requests) => resp'.success /\ CollectionsUnchanged

\* C4 as stated: on each collection, DELETE with any identifier that matches no
\* stored record answers success=true and changes none of the collections; the
\* identifier matches nothing afterwards, so a second delete does the same.
C4_DeleteOfAnyUnmatchedId ==
    [][DeleteOfNoMatch(DonorIds \cup UnitIds \cup RequestIds \cup {BadId})]_vars

\* C4 amended: the same for every well-formed identifier, the database reachable.
C4_DeleteOfUnmatchedWellFormedId ==
    [][DeleteOfNoMatch(DonorIds \cup UnitIds \cup RequestIds)]_vars

\* DELETE /api/donors answered success=true although no donor was ever removed,
\* with records in all three collections
C4_Witness ==
    /\ resp.route = "DELETE /api/donors" /\ resp.success
    /\ donors # {} /\ usedDonorIds = Ids(donors)
    /\ inventory # {} /\ requests # {}

\* the status-only body of C5
StatusOnly(S) == [NoUpdate EXCEPT !.status = S]

\* C5: after a successful PUT /api/requests/:id with body {status: S} on an
\* existing request, the list GET /api/requests returns holds that request with
\* status S and its other fields as they were, and every other request as it was.
C5_StatusUpdateIsListed ==
    [][\A id \in RequestIds, S \in UpdateStatuses :
          (/\ id \in Ids(requests)
           /\ resp'.success /\ resp'.payload # <<>> /\ resp'.payload[1].id = id
           /\ PutRequests(id, StatusOnly(S), FALSE))
              => LET old == ById(requests, id)
                     list == ListRequests'
                 IN /\ [old EXCEPT !.status = S] \in Range(list)
                    /\ \A r \in requests \ {old} : r \in Range(list)
                    /\ Len(list) = Cardinality(requests)
      ]_vars

\* a request was set to Fulfilled by PUT while another request is stored
C5_Witness ==
    /\ resp.route = "PUT /api/requests" /\ resp.success
    /\ resp.payload # <<>>
    /\ resp.payload[1].status = "Fulfilled"
    /\ resp.payload[1] \in requests
    /\ Cardinality(requests) >= 2

SortedDesc(list, key) == \A i \in 1..(Len(list) - 1) : list[i][key] >= list[i + 1][key]

ExactlyOnce(list, coll) == Len(list) = Cardinality(coll) /\ Range(list) = coll

\* C6: the lists of GET /api/donors and GET /api/inventory hold every stored
\* record exactly once, createdAt descending, and that of GET /api/requests
\* every stored request exactly once, requestDate descending; a list that was
\* returned is ordered so.
C6_ListsAreSortedDescending ==
    /\ SortedDesc(ListDonors, "createdAt") /\ ExactlyOnce(ListDonors, donors)
    /\ SortedDesc(ListInventory, "createdAt") /\ ExactlyOnce(ListInventory, inventory)
    /\ SortedDesc(ListRequests, "requestDate") /\ ExactlyOnce(ListRequests, requests)
    /\ (resp.success /\ resp.route \in {"GET /api/donors", "GET /api/inventory"})
          => SortedDesc(resp.payload, "createdAt")
    /\ (resp.success /\ resp.route = "GET /api/requests")
          => SortedDesc(resp.payload, "requestDate")

\* GET /api/donors returned two donors created at different times, while units
\* and requests created at different times are stored
C6_Witness ==
    /\ resp.route = "GET /api/donors" /\ resp.success
    /\ Len(resp.payload) >= 2
    /\ resp.payload[1].createdAt > resp.payload[2].createdAt
    /\ \E u, v \in inventory : u.createdAt # v.createdAt
    /\ \E r, q \in requests : r.requestDate # q.requestDate

\* the response and the collection after the creation of a donor with defaults
CreatesDefaultDonor ==
    /\ resp'.success /\ resp'.code = 200
    /\ Len(resp'.payload) = 1
    /\ resp'.payload[1].id \notin Ids(donors)
    /\ resp'.payload[1].createdAt = now
    /\ resp'.payload[1].lastDonation = Null
    /\ donors' = donors \cup {resp'.payload[1]}

Rejects400 == resp'.code = 400 /\ ~resp'.success /\ donors' = donors

\* C7 as stated: POST /api/donors lacking a required field answers 400 and
\* stores nothing; with all five present it answers success=true with a donor
\* of a new identifier, createdAt set, lastDonation null, and stores just it.
C7_PresentFieldsCreateDonor ==
    [][\A body \in FewDonorBodies :
          PostDonors(body, FALSE) =>
              IF \E f \in DonorRequired : body.fields[f] = "absent" THEN Rejects400
              ELSE CreatesDefaultDonor
      ]_vars

\* C7 amended: the success half for bodies of exactly the five required
\* fields, each a non-empty string.
C7_PlainBodyCreatesDonor ==
    [][\A body \in FewDonorBodies :
          PostDonors(body, FALSE) =>
              IF \E f \in DonorRequired : body.fields[f] = "absent" THEN Rejects400
              ELSE (body = PlainDonor => CreatesDefaultDonor)
      ]_vars

\* a second donor was created with defaults, after a body lacking fields was
\* turned down
C7_Witness ==
    /\ resp.route = "POST /api/donors" /\ resp.success
    /\ resp.payload[1] \in donors
    /\ resp.payload[1].lastDonation = Null
    /\ Cardinality(donors) >= 2

\* C8: every stored request has its status and its priority in the schema's
\* enums, whatever POST, PUT and DELETE were sent.
C8_StoredEnumsHold ==
    \A r \in requests : r.status \in StatusEnum /\ r.priority \in PriorityEnum

\* what C9 says of one PUT step, for the bodies in bodies
UpdateOfNoMatch(bodies) ==
    \A id \in RequestIds, body \in bodies :
        (id \notin Ids(requests) /\ PutRequests(id, body, FALSE))
            => /\ resp'.success /\ resp'.code = 200
               /\ resp'.payload = <<>>
               /\ CollectionsUnchanged

\* C9 as stated: PUT /api/requests/:id with a well-formed identifier that
\* matches no request answers success=true with request null and writes
\* nothing, whatever the body.
C9_UpdateOfNoMatchSucceeds == [][UpdateOfNoMatch(UpdateBodies)]_vars

\* C9 amended: the same for the bodies whose values cast to the schema's types,
\* the database reachable.
C9_CastableUpdateOfNoMatchWritesNothing ==
    [][UpdateOfNoMatch({body \in UpdateBodies : UpdateCasts(body)})]_vars

\* PUT answered success=true with null while a request is stored
C9_Witness ==
    /\ resp.route = "PUT /api/requests" /\ resp.success
    /\ resp.payload = <<>>
    /\ requests # {}

\* no inventory creation is under way and no donor.save() is outstanding
Quiescent == (\A h \in Handlers : hs[h].pc = "idle") /\ pendingSaves = {}

\* C10: when nothing is in flight and nothing has failed, each
\* donor's lastDonation is that of the unit persisted last for it (null if
\* there was none), however the requests interleaved.
C10_LastDonationIsLastUnit ==
    (Quiescent /\ ~failed) => \A d \in donors : d.lastDonation = lastUnit[d.id]

====
